---- MODULE Spec2Model ----
(***************************************************************************)
(* Model of the PDF translation run of src/main.py (the "MAIN ACTION"      *)
(* script body, lines 49-176) together with its helpers _translate and     *)
(* text_to_html.  Every call into PyMuPDF or the translation provider      *)
(* either returns or raises; the script's try/except structure decides     *)
(* where control goes next.                                                *)
(*                                                                         *)
(* Python strings are sequences of one-character strings; a Python value   *)
(* is a record [isstr, s] so that isinstance(v, str) can be asked of it.   *)
(***************************************************************************)
EXTENDS Integers, Sequences, FiniteSets, TLC

\* ---------------------------------------------------------------- bounds
MaxPages == 3
MaxBlocks == 2

\* ---------------------------------------------------------------- values
Str(s) == [isstr |-> TRUE, s |-> s]
None == [isstr |-> FALSE, s |-> <<>>]

Whitespace == {" ", "\n"}

\* str.strip(): drop leading and trailing whitespace
RECURSIVE lstrip(_)
lstrip(s) == IF s # <<>> /\ Head(s) \in Whitespace THEN lstrip(Tail(s)) ELSE s

RECURSIVE rstrip(_)
rstrip(s) ==
    IF s # <<>> /\ s[Len(s)] \in Whitespace
    THEN rstrip(SubSeq(s, 1, Len(s) - 1))
    ELSE s

strip(s) == rstrip(lstrip(s))

\* html.escape(s) with quote=True, one character at a time
escape_char(c) ==
    CASE c = "&" -> <<"&", "a", "m", "p", ";">>
      [] c = "<" -> <<"&", "l", "t", ";">>
      [] c = ">" -> <<"&", "g", "t", ";">>
      [] c = "\"" -> <<"&", "q", "u", "o", "t", ";">>
      [] c = "'" -> <<"&", "#", "x", "2", "7", ";">>
      [] OTHER -> <<c>>

RECURSIVE html_escape(_)
html_escape(s) ==
    IF s = <<>> THEN <<>> ELSE escape_char(Head(s)) \o html_escape(Tail(s))

\* str.replace("\n", "<br>")
RECURSIVE replace_newline(_)
replace_newline(s) ==
    IF s = <<>> THEN <<>>
    ELSE (IF Head(s) = "\n" THEN <<"<", "b", "r", ">">> ELSE <<Head(s)>>)
         \o replace_newline(Tail(s))

DivOpen == <<"<", "d", "i", "v", " ", "c", "l", "a", "s", "s", "=", "'",
             "i", "d", "-", "t", "e", "x", "t", "'", ">">>
DivClose == <<"<", "/", "d", "i", "v", ">">>

text_to_html(s) == DivOpen \o replace_newline(html_escape(s)) \o DivClose

\* ---------------------------------------------------------------- inputs
source_lang == "auto"
target_lang == "id"

\* texts a block of the uploaded document can carry at index 4
BlockTexts == {None, Str(<<" ">>), Str(<<"a">>), Str(<<"<", "\n">>)}

\* a block at position i of a page: four coordinates, then (usually) the text
BlockBox(i) == <<0, i, 1, i + 1>>
BlocksAt(i) == {BlockBox(i)} \cup {BlockBox(i) \o <<t>> : t \in BlockTexts}

\* every block list page.get_text("blocks") can return
BlockLists ==
    UNION {{bl \in [1..n -> UNION {BlocksAt(i) : i \in 1..n}] :
              \A i \in 1..n : bl[i] \in BlocksAt(i)} : n \in 0..MaxBlocks}

\* what translator.translate(text) can return when it does not raise
ProviderResults == {Str(<<"x">>), None}

Max(a, b) == IF a >= b THEN a ELSE b
Min(a, b) == IF a <= b THEN a ELSE b

VARIABLES
    pc,            \* position in the script
    uploaded,      \* a file was uploaded
    page_count,    \* doc.page_count of the uploaded document
    start_page,    \* "From page (1-based)"
    end_page,      \* "To page (0 = auto to last)"
    use_textbox,   \* rendering-mode toggle
    doc_open,      \* fitz.open returned
    doc_closed,    \* doc.close() was called
    total_pages, first_idx, last_idx,
    ocg,           \* the overlay layer exists
    pno,           \* page loop variable
    blocks,        \* blocks of the current page the block loop has yet to take
    bbox, text, translated,
    cache,         \* st.cache_data store of _translate: key -> value
    invoked,       \* keys the provider was invoked with in this run
    calls,         \* calls made for the current block, in order; empty between pages
    pending,       \* non-empty blocks extracted and not yet translated
    exported,      \* page count written by doc.ez_save, -1 before
    error          \* user-facing message of st.error / st.exception

vars == <<pc, uploaded, page_count, start_page, end_page, use_textbox,
          doc_open, doc_closed, total_pages, first_idx, last_idx, ocg, pno,
          blocks, bbox, text, translated, cache, invoked, calls, pending,
          exported, error>>

inputs == <<uploaded, page_count, start_page, end_page, use_textbox>>

\* ---------------------------------------------------------------- helpers
\* variant: the 1-based start page converted with an offset of two
FirstIdx_OffByOne(sp) == Max(0, sp - 2)

FirstIdx(sp) == Max(0, sp - 1)

LastIdx(tp, ep) == IF ep = 0 THEN tp - 1 ELSE Min(tp - 1, ep - 1)

\* variant: a range one page short of valid is let through
InvalidRange_Loose(f, l) == f > l + 1

InvalidRange(f, l) == f > l

BlockBbox(block) == SubSeq(block, 1, 4)

BlockText(block) == IF Len(block) > 4 THEN block[5] ELSE Str(<<>>)

\* variant: the emptiness test without strip()
Skipped_NoStrip(t) == ~t.isstr \/ t.s = <<>>

Skipped(t) == ~t.isstr \/ strip(t.s) = <<>>

Key(t) == <<t, source_lang, target_lang>>

\* variant: _translate without the memoization decorator
CacheHit_Never(k) == FALSE

CacheHit(k) == k \in DOMAIN cache

\* variant: the except branch substitutes an empty string
OnTranslateError_Empty(t) == Str(<<>>)

OnTranslateError(t) == t

Call(op, box, arg, res, via) ==
    [op |-> op, page |-> pno, bbox |-> box, arg |-> arg, res |-> res, via |-> via]

NonEmptyCount(bl) == Cardinality({i \in 1..Len(bl) : ~Skipped(BlockText(bl[i]))})

\* ---------------------------------------------------------------- Init
Init ==
    /\ pc = "run"
    /\ uploaded \in BOOLEAN
    /\ page_count \in 1..MaxPages
    /\ start_page \in 1..(page_count + 1)
    /\ end_page \in 0..(page_count + 1)
    /\ use_textbox \in BOOLEAN
    /\ ~uploaded => page_count = 1 /\ start_page = 1 /\ end_page = 0 /\ ~use_textbox
    /\ doc_open = FALSE
    /\ doc_closed = FALSE
    /\ total_pages = 0
    /\ first_idx = 0
    /\ last_idx = 0
    /\ ocg = FALSE
    /\ pno = 0
    /\ blocks = <<>>
    /\ bbox = <<>>
    /\ text = None
    /\ translated = None
    /\ cache = [k \in {} |-> None]
    /\ invoked = {}
    /\ calls = <<>>
    /\ pending = 0
    /\ exported = -1
    /\ error = ""

\* ---------------------------------------------------------------- actions
\* lines 49-52
CheckUpload ==
    /\ pc = "run"
    /\ IF uploaded
       THEN pc' = "open" /\ error' = error
       ELSE pc' = "stopped" /\ error' = "Please upload a PDF first."
    /\ UNCHANGED <<inputs, doc_open, doc_closed, total_pages, first_idx,
                   last_idx, ocg, pno, blocks, bbox, text, translated,
                   cache, invoked, calls, pending, exported>>

\* lines 55-60
OpenDoc ==
    /\ pc = "open"
    /\ \/ pc' = "range" /\ doc_open' = TRUE /\ error' = error
       \/ pc' = "stopped" /\ doc_open' = FALSE /\ error' = "exception"
    /\ UNCHANGED <<inputs, doc_closed, total_pages, first_idx, last_idx, ocg,
                   pno, blocks, bbox, text, translated, cache, invoked,
                   calls, pending, exported>>

\* lines 62-69
ComputeRange ==
    /\ pc = "range"
    /\ total_pages' = page_count
    /\ first_idx' = FirstIdx(start_page)
    /\ last_idx' = LastIdx(total_pages', end_page)
    /\ IF InvalidRange(first_idx', last_idx')
       THEN pc' = "stopped" /\ error' = "Invalid page range."
       ELSE pc' = "add_ocg" /\ error' = error
    /\ UNCHANGED <<inputs, doc_open, doc_closed, ocg, pno, blocks, bbox,
                   text, translated, cache, invoked, calls, pending,
                   exported>>

\* line 72; range(first_idx, last_idx + 1) starts at first_idx
AddOcg ==
    /\ pc = "add_ocg"
    /\ \/ pc' = "for_page" /\ ocg' = TRUE /\ pno' = first_idx
       \/ pc' = "crashed" /\ ocg' = FALSE /\ pno' = pno
    /\ UNCHANGED <<inputs, doc_open, doc_closed, total_pages, first_idx,
                   last_idx, blocks, bbox, text, translated, cache,
                   invoked, calls, pending, exported, error>>

\* lines 78-79: loop head and page = doc[pno]
ForPage ==
    /\ pc = "for_page"
    /\ IF pno <= last_idx
       THEN \/ pc' = "get_text"
            \/ pc' = "crashed"
       ELSE pc' = "subset"
    /\ UNCHANGED <<inputs, doc_open, doc_closed, total_pages, first_idx,
                   last_idx, ocg, pno, blocks, bbox, text, translated,
                   cache, invoked, calls, pending, exported, error>>

\* lines 82-85
GetText ==
    /\ pc = "get_text"
    /\ \/ blocks' \in BlockLists
       \/ blocks' = <<>>
    /\ pending' = pending + NonEmptyCount(blocks')
    /\ pc' = "for_block"
    /\ UNCHANGED <<inputs, doc_open, doc_closed, total_pages, first_idx,
                   last_idx, ocg, pno, bbox, text, translated, cache, invoked,
                   calls, exported, error>>

\* lines 87-92, and 150-151 when the block list is exhausted
ForBlock ==
    /\ pc = "for_block"
    /\ IF blocks # <<>>
       THEN /\ bbox' = BlockBbox(Head(blocks))
            /\ text' = BlockText(Head(blocks))
            /\ blocks' = Tail(blocks)
            /\ calls' = <<>>
            /\ pc' = IF Skipped(text') THEN "for_block" ELSE "translate"
            /\ pno' = pno
       ELSE /\ pno' = pno + 1
            /\ pc' = "for_page"
            /\ calls' = <<>>
            /\ UNCHANGED <<bbox, text, blocks>>
    /\ UNCHANGED <<inputs, doc_open, doc_closed, total_pages, first_idx,
                   last_idx, ocg, translated, cache, invoked,
                   pending, exported, error>>

\* lines 38-41 called from lines 94-98, then the check of lines 100-101
Translate ==
    /\ pc = "translate"
    /\ LET k == Key(text) IN
       IF CacheHit(k)
       THEN /\ translated' = cache[k]
            /\ calls' = Append(calls, Call("translate", <<>>, text, "ok", "cache"))
            /\ UNCHANGED <<cache, invoked>>
       ELSE /\ invoked' = invoked \cup {k}
            /\ \/ \E v \in ProviderResults :
                    /\ cache' = [x \in DOMAIN cache \cup {k} |->
                                    IF x = k THEN v ELSE cache[x]]
                    /\ translated' = v
                    /\ calls' = Append(calls,
                                  Call("translate", <<>>, text, "ok", "provider"))
               \/ /\ cache' = cache
                  /\ translated' = OnTranslateError(text)
                  /\ calls' = Append(calls,
                                Call("translate", <<>>, text, "raise", "provider"))
    /\ pending' = pending - 1
    /\ pc' = IF translated'.isstr THEN "draw_rect" ELSE "for_block"
    /\ UNCHANGED <<inputs, doc_open, doc_closed, total_pages, first_idx,
                   last_idx, ocg, pno, blocks, bbox, text,
                   exported, error>>

\* variant: a failed cover rectangle leaves the block loop (break)
DrawRect_Break ==
    /\ pc = "draw_rect"
    /\ \/ /\ calls' = Append(calls, Call("draw_rect", bbox, None, "ok", "lib"))
          /\ pc' = "place"
          /\ blocks' = blocks
       \/ /\ calls' = Append(calls, Call("draw_rect", bbox, None, "raise", "lib"))
          /\ pc' = "for_block"
          /\ blocks' = <<>>
    /\ UNCHANGED <<inputs, doc_open, doc_closed, total_pages, first_idx,
                   last_idx, ocg, pno, bbox, text, translated,
                   cache, invoked, pending, exported, error>>

\* variant: a failed cover rectangle is ignored and the text is placed anyway
DrawRect_NoSkip ==
    /\ pc = "draw_rect"
    /\ \E res \in {"ok", "raise"} :
          calls' = Append(calls, Call("draw_rect", bbox, None, res, "lib"))
    /\ pc' = "place"
    /\ UNCHANGED <<inputs, doc_open, doc_closed, total_pages, first_idx,
                   last_idx, ocg, pno, blocks, bbox, text, translated,
                   cache, invoked, pending, exported, error>>

\* lines 103-107
DrawRect ==
    /\ pc = "draw_rect"
    /\ \/ /\ calls' = Append(calls, Call("draw_rect", bbox, None, "ok", "lib"))
          /\ pc' = "place"
       \/ /\ calls' = Append(calls, Call("draw_rect", bbox, None, "raise", "lib"))
          /\ pc' = "for_block"
    /\ UNCHANGED <<inputs, doc_open, doc_closed, total_pages, first_idx,
                   last_idx, ocg, pno, blocks, bbox, text, translated,
                   cache, invoked, pending, exported, error>>

\* lines 109-135
PlaceText ==
    /\ pc = "place"
    /\ \E res \in {"ok", "raise"} :
          /\ calls' = Append(calls,
                IF use_textbox
                THEN Call("insert_textbox", bbox, translated, res, "lib")
                ELSE Call("insert_htmlbox", bbox,
                          Str(text_to_html(translated.s)), res, "lib"))
          /\ pc' = IF res = "ok" THEN "for_block" ELSE "fallback"
    /\ UNCHANGED <<inputs, doc_open, doc_closed, total_pages, first_idx,
                   last_idx, ocg, pno, blocks, bbox, text, translated,
                   cache, invoked, pending, exported, error>>

\* variant: the except branch of the placement only passes
Fallback_Pass ==
    /\ pc = "fallback"
    /\ pc' = "for_block"
    /\ UNCHANGED <<inputs, doc_open, doc_closed, total_pages, first_idx,
                   last_idx, ocg, pno, blocks, bbox, text, translated,
                   cache, invoked, calls, pending, exported, error>>

\* lines 135-148
Fallback ==
    /\ pc = "fallback"
    /\ \E res \in {"ok", "raise"} :
          calls' = Append(calls,
                     Call("insert_textbox", bbox, translated, res, "lib"))
    /\ pc' = "for_block"
    /\ UNCHANGED <<inputs, doc_open, doc_closed, total_pages, first_idx,
                   last_idx, ocg, pno, blocks, bbox, text, translated,
                   cache, invoked, pending, exported, error>>

\* lines 153-157: the outcome of doc.subset_fonts() is swallowed
SubsetFonts ==
    /\ pc = "subset"
    /\ \/ pc' = "save"
       \/ pc' = "save"
    /\ UNCHANGED <<inputs, doc_open, doc_closed, total_pages, first_idx,
                   last_idx, ocg, pno, blocks, bbox, text, translated,
                   cache, invoked, calls, pending, exported, error>>

\* lines 159-160
Save ==
    /\ pc = "save"
    /\ \/ pc' = "close" /\ exported' = page_count
       \/ pc' = "crashed" /\ exported' = exported
    /\ UNCHANGED <<inputs, doc_open, doc_closed, total_pages, first_idx,
                   last_idx, ocg, pno, blocks, bbox, text, translated,
                   cache, invoked, calls, pending, error>>

\* lines 161-176
Close ==
    /\ pc = "close"
    /\ doc_closed' = TRUE
    /\ pc' = "done"
    /\ UNCHANGED <<inputs, doc_open, total_pages, first_idx, last_idx, ocg,
                   pno, blocks, bbox, text, translated, cache, invoked,
                   calls, pending, exported, error>>

Next ==
    \/ CheckUpload
    \/ OpenDoc
    \/ ComputeRange
    \/ AddOcg
    \/ ForPage
    \/ GetText
    \/ ForBlock
    \/ Translate
    \/ DrawRect
    \/ PlaceText
    \/ Fallback
    \/ SubsetFonts
    \/ Save
    \/ Close

Spec == Init /\ [][Next]_vars

\* ---------------------------------------------------------------- properties
CallsOf(op) == {i \in 1..Len(calls) : calls[i].op = op}

Placements == {"insert_htmlbox", "insert_textbox"}

Draws == {"draw_rect"} \cup Placements

\* a text that is not a string, is empty, or holds only whitespace
Blank(t) == ~t.isstr \/ \A i \in 1..Len(t.s) : t.s[i] \in {" ", "\n"}

\* the 1-based end page after resolving "0 = last page"
ResolvedEnd == IF end_page = 0 THEN page_count ELSE Min(end_page, page_count)

\* C1: for a block whose text is missing, not a string, empty or
\* whitespace-only, no call at all is made: no translation, no cover
\* rectangle, no styled-markup placement, no text-box placement.
C1_BlankBlockNoCalls == Blank(text) => calls = <<>>

C1_Witness ==
    /\ pc = "for_block"
    /\ text = Str(<<" ">>)
    /\ calls = <<>>

\* C2: when the translation call of a block raised, the pipeline goes on to
\* the cover rectangle with the original text, and every text placed for the
\* block afterwards is that original, non-empty text: the text box receives
\* it as is, the styled-markup box receives its markup, which is the markup
\* of no other block text.
C2_FailedTranslationKeepsOriginal ==
    \A i \in CallsOf("translate") :
        calls[i].res = "raise" =>
            /\ translated = text
            /\ text.s # <<>>
            /\ Len(calls) = i => pc = "draw_rect"
            /\ \A j \in CallsOf("insert_textbox") : calls[j].arg = text
            /\ \A j \in CallsOf("insert_htmlbox") :
                  /\ calls[j].arg = Str(text_to_html(text.s))
                  /\ \A t \in BlockTexts \cup ProviderResults \cup {Str(<<>>)} :
                        t.isstr /\ text_to_html(t.s) = calls[j].arg.s => t = text

C2_Witness ==
    /\ text = Str(<<"<", "\n">>)
    /\ Len(calls) = 3
    /\ calls[1].op = "translate" /\ calls[1].res = "raise"
    /\ calls[3].op = "insert_htmlbox" /\ calls[3].res = "ok"

\* C3: draw operations are invoked only on pages whose index lies in the
\* requested range (start page to resolved end page), and the exported
\* document has as many pages as the uploaded one.
C3_OnlyRangePagesTouched ==
    /\ \A i \in 1..Len(calls) :
          calls[i].op \in Draws =>
             start_page - 1 <= calls[i].page /\ calls[i].page <= ResolvedEnd - 1
    /\ exported # -1 => exported = page_count

C3_Witness ==
    /\ pc = "for_block"
    /\ page_count = 3 /\ start_page = 2 /\ end_page = 2
    /\ Len(calls) = 3
    /\ \A i \in 2..3 : calls[i].op \in Draws /\ calls[i].page = 1 /\ calls[i].res = "ok"

\* C4: when the start page exceeds the resolved end page, the run stops with
\* the invalid-range error and nothing was done to the document: no overlay
\* layer, no translation, no draw, no export.
C4_InvalidRangeHalts ==
    (doc_open /\ pc # "range" /\ start_page > ResolvedEnd) =>
        /\ pc = "stopped"
        /\ error = "Invalid page range."
        /\ ~ocg
        /\ invoked = {} /\ calls = <<>>
        /\ exported = -1

C4_Witness ==
    /\ pc = "stopped"
    /\ doc_open
    /\ end_page > page_count
    /\ start_page > ResolvedEnd

\* a step of _translate that invokes the provider
ProviderStep ==
    /\ pc = "translate"
    /\ Len(calls') = Len(calls) + 1
    /\ calls'[Len(calls')].via = "provider"

\* C5 as stated: the provider is invoked at most once for a triple.
C5_ProviderAtMostOnce == [][ProviderStep => Key(text) \notin invoked]_vars

\* C5 as amended: once _translate has returned for a triple, its value stays
\* cached, and every later call with the triple returns the cached value
\* without invoking the provider; a provider call is made only for a triple
\* with no cached value, and stores nothing when it raises.
C5_CachedAfterReturn ==
    [][/\ \A k \in DOMAIN cache : k \in DOMAIN cache' /\ cache'[k] = cache[k]
       /\ (pc = "translate" /\ Key(text) \in DOMAIN cache) =>
             /\ ~ProviderStep
             /\ invoked' = invoked
             /\ translated' = cache[Key(text)]
       /\ (ProviderStep /\ calls'[Len(calls')].res = "raise") => cache' = cache
      ]_vars

C5_Witness ==
    /\ Len(calls) >= 1
    /\ calls[1].op = "translate" /\ calls[1].via = "cache"
    /\ translated = Str(<<"x">>)

C7_ClosedAtEnd ==
    (doc_open /\ pc \in {"done", "stopped", "crashed"}) => doc_closed

\* C8: a failure of block extraction, translation, cover rectangle or text
\* placement never ends the run: the run is stopped only by input validation
\* and crashes only in overlay creation, page access or export; every
\* non-empty block extracted from every page of the range has entered the
\* pipeline when font subsetting starts, and export follows.
C8_FailuresContained ==
    [][/\ pc' = "stopped" => pc \in {"run", "open", "range", "stopped"}
       /\ pc' = "crashed" => pc \in {"add_ocg", "for_page", "save", "crashed"}
       /\ pc \in {"get_text", "translate", "draw_rect", "place", "fallback"}
             => pc' \in {"for_block", "draw_rect", "place", "fallback"}
       /\ pc' = "subset" => pending' = 0 /\ pno' = last_idx' + 1
       /\ pc = "subset" => pc' = "save"
      ]_vars

C8_Witness ==
    /\ pc = "done"
    /\ exported = page_count
    /\ ~Blank(text)
    /\ translated = text
    /\ Key(text) \in invoked
    /\ Key(text) \notin DOMAIN cache

\* C9 as stated: each of translation, cover rectangle, styled-markup
\* placement and text-box placement is invoked at most once for a block.
C9_EachOperationOnce ==
    \A op \in {"translate", "draw_rect", "insert_htmlbox", "insert_textbox"} :
        Cardinality(CallsOf(op)) <= 1

\* C10: a text placement is invoked for a block only after the cover
\* rectangle of that block was drawn; when the cover rectangle raises, the
\* pipeline goes to the next block with no placement for this one.
C10_PlacementOnlyAfterCover ==
    /\ \A i \in 1..Len(calls) :
          calls[i].op \in Placements =>
             \E j \in 1..(i - 1) :
                /\ calls[j].op = "draw_rect"
                /\ calls[j].res = "ok"
                /\ calls[j].bbox = calls[i].bbox
    /\ \A i \in CallsOf("draw_rect") :
          calls[i].res = "raise" => i = Len(calls) /\ pc \notin {"place", "fallback"}

C10_Witness ==
    /\ pc = "for_block"
    /\ blocks # <<>>
    /\ Len(calls) = 2
    /\ calls[2].op = "draw_rect" /\ calls[2].res = "raise"
====
